---- MODULE Spec2Model ----
(***************************************************************************)
(* State-machine model of the EMA signals bot (src/ema_signals_bot.py,     *)
(* with the modular variant src/src/*.py where it agrees).                 *)
(*                                                                         *)
(* Two threads are modelled: the main thread (module import, the           *)
(* __main__ retry loop, main() with its polling loop) and the Telegram     *)
(* polling thread that runs the command handlers.                          *)
(*                                                                         *)
(* Prices returned by calc_oco_prices are integers in units of 1e-4 (the   *)
(* code rounds to 4 decimal places); percents and closes are integers.     *)
(***************************************************************************)
EXTENDS Integers, Sequences, FiniteSets, TLC

VARIABLES
    env,                   \* os.environ as read at import (lines 38-39, 63-64)
    TP_PERCENT,            \* module global, line 63, written by process_tp
    SL_PERCENT,            \* module global, line 64, written by process_sl
    defaults,              \* default arguments of calc_oco_prices, bound at def time (line 134)
    pc,                    \* position of the main thread
    runs,                  \* number of times __main__ has called main()
    SYMBOLS,               \* module global, line 42, overwritten at line 387
    exchange,              \* "none" | "open" | "closed"
    last_signals_7_30,     \* dict of main(), line 376
    last_signals_9_20_rsi, \* dict of main(), line 377
    error_count,           \* local of main(), line 378
    results,               \* per symbol: the state of its get_ohlcv task in this cycle
    idx,                   \* position of the for loop of line 422 in zip(SYMBOLS, results)
    success_count,         \* local of the sweep, line 421
    state_storage,         \* telebot StateMemoryStorage: chat -> dialog state
    step,                  \* observation: what the last main-thread step did
    prevSig,               \* observation: last non-None signal each evaluator returned in this run
    excStreak,             \* observation: cycle-level exceptions since the last sweep with a success
    startup,               \* observation: what validation listed and which symbol the probe fetched
    closes,                \* observation: calls of exchange.close() in this run of main
    rejected,              \* observation: symbols whose series get_ohlcv refused in this cycle
    tg,                    \* observation: what the last Telegram handler did
    call,                  \* a function of the program applied to given arguments
    earlier                \* observation: the processes that ended before this one

vars == << env, TP_PERCENT, SL_PERCENT, defaults, pc, runs, SYMBOLS, exchange,
           last_signals_7_30, last_signals_9_20_rsi, error_count, results, idx,
           success_count, state_storage, step, prevSig, excStreak,
           startup, closes, rejected, tg, call, earlier >>

----------------------------------------------------------------------------
(* Program constants *)

LIMIT == 150
ERROR_THRESHOLD == 5

(* Bounds of the model *)

MaxRuns == 2          \* calls of main() by the __main__ loop that are explored

None == "None"

ConfiguredSymbols == << "BTC/USDT", "ETH/USDT" >>
SymbolSet == { ConfiguredSymbols[i] : i \in 1..Len(ConfiguredSymbols) }

OwnerChat == "100"
Chats == { "100", "200" }

\* The result of a conversion: a value, or the ValueError it raises.
Ok(v) == [ok |-> TRUE, val |-> v]
ValueError == [ok |-> FALSE]

\* The float nan, which float("nan") returns: a value apart from every number
\* of the model, that the comparisons below treat as IEEE 754 does.
NaN == -1000000

\* value <= 0 on floats: False when value is nan.
LeqZero(value) == value # NaN /\ value <= 0

\* float(text): the texts the model feeds to float() and what it returns.
ParseFloat(text) ==
    CASE text = "3"   -> Ok(3)
      [] text = "2"   -> Ok(2)
      [] text = "2.0" -> Ok(2)
      [] text = "1"   -> Ok(1)
      [] text = "1.0" -> Ok(1)
      [] text = "0"   -> Ok(0)
      [] text = "-1"  -> Ok(-1)
      [] text = "nan" -> Ok(NaN)
      [] OTHER        -> ValueError

\* int(text) at line 109: raises ValueError unless the text is an integer numeral.
ParseInt(text) ==
    CASE text = "100" -> Ok(100)
      [] text = "200" -> Ok(200)
      [] OTHER        -> ValueError

\* os.getenv(name) is None when the variable is unset.
Unset == "<unset>"

\* os.getenv(name, default)
Getenv(e, name, default) == IF e[name] = Unset THEN default ELSE e[name]

\* Python truthiness, as tested by "not value" at line 103.
FalsyStr(v) == v = Unset \/ v = ""
FalsyNum(v) == v = 0

----------------------------------------------------------------------------
(* Series handed to the evaluators: the length of the frame and the values *)
(* the evaluators read from its last two rows.                             *)

\* rsi_na[i] is pd.isna of the rsi at that row; rsi[i] is read only when it is FALSE.
Frame(n, c, e7, e30, e9, e20, r) ==
    [ len |-> n, close |-> c, ema7 |-> e7, ema30 |-> e30,
      ema9 |-> e9, ema20 |-> e20, rsi |-> r, rsi_na |-> << FALSE, FALSE >> ]

FrameUp    == Frame(150, 12, <<9, 11>>, <<10, 10>>, <<9, 11>>, <<10, 10>>, <<60, 50>>)
FrameDown  == Frame(150,  8, <<11, 9>>, <<10, 10>>, <<11, 9>>, <<10, 10>>, <<40, 50>>)
FrameFlat  == Frame(150, 10, <<9, 9>>,  <<10, 10>>, <<9, 9>>,  <<10, 10>>, <<50, 50>>)
FrameUp7   == Frame(150, 12, <<9, 11>>, <<10, 10>>, <<9, 11>>, <<10, 10>>, <<60, 56>>)

\* The rows of FrameUp in a series one bar short of LIMIT.
FrameShort == Frame(LIMIT - 1, 12, <<9, 11>>, <<10, 10>>, <<9, 11>>, <<10, 10>>, <<60, 50>>)

Frames == { FrameUp, FrameDown, FrameFlat, FrameUp7, FrameShort }

\* What exchange.fetch_ohlcv can produce within asyncio.wait_for.
RawFetches ==
    { [kind |-> "timeout"], [kind |-> "error"], [kind |-> "empty"],
      [kind |-> "nan"], [kind |-> "nonpositive"] }
    \cup { [kind |-> "data", df |-> f] : f \in Frames }

Raised == [st |-> "exc"]
Returned(df) == [st |-> "ok", df |-> df]
Pending == [st |-> "pending"]
Idle == [st |-> "idle"]

\* The data get_ohlcv refuses with a ValueError: an empty list (line 185), a
\* missing open, high, low, close or volume (line 192), an open, high, low or
\* close that is not positive (line 195).
BadData == { "empty", "nan", "nonpositive" }

\* A get_ohlcv without the test of line 195.
get_ohlcv_no_price_test(raw) ==
    CASE raw.kind = "timeout"     -> Raised
      [] raw.kind = "error"       -> Raised
      [] raw.kind = "empty"       -> Raised
      [] raw.kind = "nan"         -> Raised
      [] raw.kind = "nonpositive" -> Returned(FrameDown)
      [] OTHER                    -> Returned(raw.df)

\* get_ohlcv: the frame it returns, or the exception it re-raises.
get_ohlcv(raw) ==
    CASE raw.kind = "timeout"     -> Raised
      [] raw.kind = "error"       -> Raised
      [] raw.kind = "empty"       -> Raised
      [] raw.kind = "nan"         -> Raised
      [] raw.kind = "nonpositive" -> Raised
      [] OTHER                    -> Returned(raw.df)

\* The evaluator with <= and >= in place of < and > on the bar before the last.
check_signal_ema7_30_nonstrict(df) ==
    IF df.len < LIMIT THEN None
    ELSE IF /\ df.ema7[1] <= df.ema30[1]
            /\ df.ema7[2] > df.ema30[2]
            /\ df.close > df.ema7[2]
            /\ df.close > df.ema30[2]
         THEN "LONG"
    ELSE IF /\ df.ema7[1] >= df.ema30[1]
            /\ df.ema7[2] < df.ema30[2]
            /\ df.close < df.ema7[2]
            /\ df.close < df.ema30[2]
         THEN "SHORT"
    ELSE None

\* The evaluator without the length test of lines 248-250.
check_signal_ema7_30_no_length_test(df) ==
    IF /\ df.ema7[1] < df.ema30[1]
       /\ df.ema7[2] > df.ema30[2]
       /\ df.close > df.ema7[2]
       /\ df.close > df.ema30[2]
    THEN "LONG"
    ELSE IF /\ df.ema7[1] > df.ema30[1]
            /\ df.ema7[2] < df.ema30[2]
            /\ df.close < df.ema7[2]
            /\ df.close < df.ema30[2]
         THEN "SHORT"
    ELSE None

check_signal_ema7_30(df) ==
    IF df.len < LIMIT THEN None
    ELSE IF /\ df.ema7[1] < df.ema30[1]
            /\ df.ema7[2] > df.ema30[2]
            /\ df.close > df.ema7[2]
            /\ df.close > df.ema30[2]
         THEN "LONG"
    ELSE IF /\ df.ema7[1] > df.ema30[1]
            /\ df.ema7[2] < df.ema30[2]
            /\ df.close < df.ema7[2]
            /\ df.close < df.ema30[2]
         THEN "SHORT"
    ELSE None

\* The evaluator with rsi[-1] < 55 and rsi[-1] > 45 in place of <= and >=.
check_signal_ema9_20_rsi_strict(df) ==
    IF df.len < LIMIT THEN None
    ELSE IF df.rsi_na[2] \/ df.rsi_na[1] THEN None
    ELSE IF /\ df.ema9[1] < df.ema20[1]
            /\ df.ema9[2] > df.ema20[2]
            /\ df.rsi[1] > 55
            /\ df.rsi[2] < 55
         THEN "LONG (RSI)"
    ELSE IF /\ df.ema9[1] > df.ema20[1]
            /\ df.ema9[2] < df.ema20[2]
            /\ df.rsi[1] < 45
            /\ df.rsi[2] > 45
         THEN "SHORT (RSI)"
    ELSE None

check_signal_ema9_20_rsi(df) ==
    IF df.len < LIMIT THEN None
    ELSE IF df.rsi_na[2] \/ df.rsi_na[1] THEN None
    ELSE IF /\ df.ema9[1] < df.ema20[1]
            /\ df.ema9[2] > df.ema20[2]
            /\ df.rsi[1] > 55
            /\ df.rsi[2] <= 55
         THEN "LONG (RSI)"
    ELSE IF /\ df.ema9[1] > df.ema20[1]
            /\ df.ema9[2] < df.ema20[2]
            /\ df.rsi[1] < 45
            /\ df.rsi[2] >= 45
         THEN "SHORT (RSI)"
    ELSE None

----------------------------------------------------------------------------
(* Order-level price calculator *)

\* round(n / d) to the nearest integer, ties to even (Python's round), d > 0.
RoundDiv(n, d) ==
    LET q == n \div d
        r == n % d
    IN  IF 2 * r < d THEN q
        ELSE IF 2 * r > d THEN q + 1
        ELSE IF q % 2 = 0 THEN q ELSE q + 1

\* A test of the whole label in place of its prefix.
StartsWithLONG_whole_label(direction) == direction = "LONG"

\* direction.startswith('LONG')
StartsWithLONG(direction) == direction \in { "LONG", "LONG (RSI)" }

\* calc_oco_prices for a price given, like its results, in units of 1e-4.
calc_oco_prices_e4(direction, price_e4, tp_perc, sl_perc) ==
    IF StartsWithLONG(direction)
    THEN LET tp_price   == RoundDiv(price_e4 * (100 + tp_perc), 100)
             sl_trigger == RoundDiv(price_e4 * (100 - sl_perc), 100)
             sl_market  == RoundDiv(sl_trigger * 999, 1000)
         IN  << tp_price, sl_trigger, sl_market >>
    ELSE LET tp_price   == RoundDiv(price_e4 * (100 - tp_perc), 100)
             sl_trigger == RoundDiv(price_e4 * (100 + sl_perc), 100)
             sl_market  == RoundDiv(sl_trigger * 1001, 1000)
         IN  << tp_price, sl_trigger, sl_market >>

\* calc_oco_prices(direction, price, tp_perc, sl_perc) for a whole price: results
\* in units of 1e-4.
calc_oco_prices(direction, price, tp_perc, sl_perc) ==
    calc_oco_prices_e4(direction, price * 10000, tp_perc, sl_perc)

----------------------------------------------------------------------------
(* Notifier *)

\* A message handed to bot.send_message; delivered is whether the call returned.
Msg(kind, delivered) == [kind |-> kind, delivered |-> delivered]

\* A send_message without the try/except: a failed send propagates.
send_message_unguarded(delivered) == ~delivered

\* send_message (lines 160-166): does a failure of bot.send_message propagate
\* to the caller?  The try/except Exception swallows it.
send_message_raises(delivered) == FALSE

\* send_critical_message (lines 168-176): sends only with a token and a chat id.
send_critical_message(e, delivered) ==
    IF ~FalsyStr(e.TELEGRAM_TOKEN) /\ ~FalsyStr(e.TELEGRAM_CHAT_ID)
    THEN << Msg("critical", delivered) >>
    ELSE << >>

\* format_signal_message applied to the result of calc_oco_prices, as built at
\* lines 431-434 and 440-444.  tp_now and sl_now record the globals TP_PERCENT and
\* SL_PERCENT at the moment the alert is constructed.
SignalAlert(symbol, strategy, signal, price, tp_perc, sl_perc, tp_now, sl_now, delivered) ==
    LET oco == calc_oco_prices(signal, price, tp_perc, sl_perc)
    IN  [ kind |-> "signal", symbol |-> symbol, strategy |-> strategy,
          signal |-> signal, price |-> price,
          tp |-> oco[1], sl_tr |-> oco[2], sl_mkt |-> oco[3],
          tp_now |-> tp_now, sl_now |-> sl_now, delivered |-> delivered ]

----------------------------------------------------------------------------
(* Start-up *)

\* check_tokens (lines 94-132): TRUE when it returns, FALSE when it raises
\* MissingTokenError.
check_tokens(e, tp, sl) ==
    /\ ~FalsyStr(e.TELEGRAM_TOKEN)
    /\ ~FalsyStr(e.TELEGRAM_CHAT_ID)
    /\ ~FalsyNum(tp)
    /\ ~FalsyNum(sl)
    /\ ParseInt(e.TELEGRAM_CHAT_ID).ok
    /\ ~LeqZero(tp)
    /\ ~LeqZero(sl)

\* A validation that keeps every symbol of the list.
valid_symbols_unfiltered(symbols, markets) == symbols

\* [s for s in symbols if s in markets] (line 218); validate_symbols raises when
\* the list is empty (line 222).
valid_symbols(symbols, markets) == SelectSeq(symbols, LAMBDA s : s \in markets)

\* The symbols of a list that are in a set, in the order of the list.
ListedInOrder(list, markets) ==
    LET keep == { i \in 1..Len(list) : list[i] \in markets }
        nth(k) == CHOOSE i \in keep : Cardinality({ j \in keep : j < i }) = k - 1
    IN  [k \in 1..Cardinality(keep) |-> list[nth(k)]]

\* A main that returns after a failed test request without closing the exchange.
close_calls_not_after_probe(path) == IF path = "probe" THEN 0 ELSE 1

\* The number of times main awaits exchange.close() when it ends by a path:
\* line 394 after a failed validation, line 406 after a failed test request,
\* line 471 after the break of line 469.
close_calls(path) == 1

\* The exchange handle after main has ended by a path.
exchange_after(path, handle) == IF close_calls(path) > 0 THEN "closed" ELSE handle

EmptyStore == [s \in SymbolSet |-> None]
NoTasks == [s \in SymbolSet |-> Idle]
InList(s, list) == \E i \in 1..Len(list) : list[i] = s

NoStep == [kind |-> "none", sent |-> << >>]

\* Before validate_symbols has returned and before the test request.
NoStartup == [listed |-> << >>, probed |-> None]

\* No Telegram message has been handled.
NoReply == [handler |-> "none"]

\* No process has ended before this one.
NoEarlier ==
    [ restarts |-> 0, last_signals_7_30 |-> EmptyStore,
      last_signals_9_20_rsi |-> EmptyStore ]

\* No function is being applied.
NoCall == [fn |-> "none"]

EnvChoices ==
    [ TELEGRAM_TOKEN      : { Unset, "tok" },
      TELEGRAM_CHAT_ID    : { Unset, "abc", OwnerChat },
      TAKE_PROFIT_PERCENT : { Unset, "0", "abc" },
      STOP_LOSS_PERCENT   : { Unset, "-1" } ]

InitWith(watchlist) ==
    /\ env \in EnvChoices
    /\ TP_PERCENT = 0
    /\ SL_PERCENT = 0
    /\ defaults = [tp |-> 0, sl |-> 0]
    /\ pc = "import"
    /\ runs = 0
    /\ SYMBOLS = watchlist
    /\ exchange = "none"
    /\ last_signals_7_30 = EmptyStore
    /\ last_signals_9_20_rsi = EmptyStore
    /\ error_count = 0
    /\ results = NoTasks
    /\ idx = 0
    /\ success_count = 0
    /\ state_storage = [c \in Chats |-> None]
    /\ step = NoStep
    /\ prevSig = [k \in {"7_30", "9_20_rsi"} |-> EmptyStore]
    /\ excStreak = 0
    /\ startup = NoStartup
    /\ closes = 0
    /\ rejected = { }
    /\ tg = NoReply
    /\ call = NoCall
    /\ earlier = NoEarlier

\* The program with its watch-list of line 42.
Init == InitWith(ConfiguredSymbols)

\* The program with a watch-list of one symbol.
InitOne == InitWith(<< ConfiguredSymbols[1] >>)

\* Module import, lines 37-64 and 134: the environment is read, the percents are
\* parsed (an unparsable one ends the process with the ValueError) and the
\* default arguments of calc_oco_prices are bound.
Import ==
    /\ pc = "import"
    /\ LET tp == ParseFloat(Getenv(env, "TAKE_PROFIT_PERCENT", "2.0"))
           sl == ParseFloat(Getenv(env, "STOP_LOSS_PERCENT", "1.0"))
       IN  IF tp.ok /\ sl.ok
           THEN /\ TP_PERCENT' = tp.val
                /\ SL_PERCENT' = sl.val
                /\ defaults' = [tp |-> tp.val, sl |-> sl.val]
                /\ pc' = "init"
           ELSE /\ pc' = "EXIT_IMPORT"
                /\ UNCHANGED << TP_PERCENT, SL_PERCENT, defaults >>
    /\ step' = [kind |-> "import", sent |-> << >>]
    /\ UNCHANGED << startup, closes, rejected, tg, call, earlier, env, runs, SYMBOLS, exchange, last_signals_7_30,
                    last_signals_9_20_rsi, error_count, results, idx,
                    success_count, state_storage, prevSig, excStreak >>

\* Stores that start with the entries of the process that ended before.
initial_store_restored(persisted) == persisted

\* last_signals_7_30 = {} and last_signals_9_20_rsi = {} (lines 376-377): new
\* dicts, whatever an earlier run or process held; nothing is read from disk.
initial_store(persisted) == EmptyStore

\* __main__ calls asyncio.run(main()) (line 483); main runs check_tokens and, when
\* it returns, lines 374-381.  When it raises, the except of line 489 sends the
\* critical message and sleeps.
StartMain ==
    /\ pc = "init"
    /\ runs < MaxRuns
    /\ runs' = runs + 1
    /\ IF check_tokens(env, TP_PERCENT, SL_PERCENT)
       THEN /\ exchange' = "open"
            /\ last_signals_7_30' = initial_store(earlier.last_signals_7_30)
            /\ last_signals_9_20_rsi' = initial_store(earlier.last_signals_9_20_rsi)
            /\ prevSig' = [k \in {"7_30", "9_20_rsi"} |-> EmptyStore]
            /\ error_count' = 0
            /\ excStreak' = 0
            /\ startup' = NoStartup
            /\ closes' = 0
            /\ pc' = "validating"
            /\ step' = [kind |-> "check_tokens", ok |-> TRUE, sent |-> << >>]
       ELSE /\ \E delivered \in BOOLEAN :
                 step' = [kind |-> "check_tokens", ok |-> FALSE,
                          sent |-> send_critical_message(env, delivered)]
            /\ pc' = "backoff"
            /\ UNCHANGED << exchange, last_signals_7_30, last_signals_9_20_rsi,
                            prevSig, error_count, excStreak, startup, closes >>
    /\ UNCHANGED << rejected, tg, call, earlier, env, TP_PERCENT, SL_PERCENT, defaults, SYMBOLS, results, idx,
                    success_count, state_storage >>

\* time.sleep(60) at line 493, then the while True of line 481 again.
Backoff ==
    /\ pc = "backoff"
    /\ pc' = "init"
    /\ step' = [kind |-> "backoff", sent |-> << >>]
    /\ UNCHANGED << startup, closes, rejected, tg, call, earlier, env, TP_PERCENT, SL_PERCENT, defaults, runs, SYMBOLS, exchange,
                    last_signals_7_30, last_signals_9_20_rsi, error_count, results,
                    idx, success_count, state_storage, prevSig, excStreak >>

\* Lines 385-395: validate_symbols against the markets the exchange lists
\* (load_markets may fail).
ValidateSymbols ==
    /\ pc = "validating"
    /\ \E loaded \in BOOLEAN, markets \in SUBSET SymbolSet, delivered \in BOOLEAN :
         LET valid == valid_symbols(SYMBOLS, markets)
             observed == [kind |-> "validate", configured |-> SYMBOLS,
                          loaded |-> loaded, markets |-> markets, sent |-> << >>]
         IN  IF loaded /\ valid # << >>
             THEN /\ SYMBOLS' = valid
                  /\ pc' = "probe"
                  /\ step' = [observed EXCEPT !.sent = << Msg("started", delivered) >>]
                  /\ startup' = [startup EXCEPT !.listed = ListedInOrder(SYMBOLS, markets)]
                  /\ UNCHANGED << exchange, closes >>
             ELSE /\ step' = [observed EXCEPT
                                !.sent = << Msg("fatal_validate", delivered) >>]
                  /\ exchange' = exchange_after("validate", exchange)
                  /\ closes' = closes + close_calls("validate")
                  /\ pc' = "EXIT_VALIDATE"
                  /\ UNCHANGED << SYMBOLS, startup >>
    /\ UNCHANGED << rejected, tg, call, earlier, env, TP_PERCENT, SL_PERCENT, defaults, runs, last_signals_7_30,
                    last_signals_9_20_rsi, error_count, results, idx, success_count,
                    state_storage, prevSig, excStreak >>

\* Lines 397-407: the test request for SYMBOLS[0].
WarmupProbe ==
    /\ pc = "probe"
    /\ \E raw \in RawFetches, delivered \in BOOLEAN :
         LET test_symbol == SYMBOLS[1]
             observed == [kind |-> "probe", symbol |-> test_symbol, raw |-> raw.kind,
                          sent |-> << >>]
         IN  IF get_ohlcv(raw).st = "ok"
             THEN /\ pc' = "sleeping"
                  /\ step' = [observed EXCEPT !.sent = << Msg("probe_ok", delivered) >>]
                  /\ startup' = [startup EXCEPT !.probed = test_symbol]
                  /\ UNCHANGED << exchange, closes >>
             ELSE /\ step' = [observed EXCEPT !.sent = << Msg("fatal_probe", delivered) >>]
                  /\ exchange' = exchange_after("probe", exchange)
                  /\ closes' = closes + close_calls("probe")
                  /\ pc' = "EXIT_PROBE"
                  /\ UNCHANGED startup
    /\ UNCHANGED << rejected, tg, call, earlier, env, TP_PERCENT, SL_PERCENT, defaults, runs, SYMBOLS,
                    last_signals_7_30, last_signals_9_20_rsi, error_count, results,
                    idx, success_count, state_storage, prevSig, excStreak >>

----------------------------------------------------------------------------
(* Polling loop, lines 411-472 *)

\* Tasks only for the symbols whose last fetch did not fail.
create_tasks_dropping_failed(symbols, last_results) ==
    [s \in SymbolSet |->
        IF InList(s, symbols) /\ last_results[s] # Raised THEN Pending ELSE Idle]

\* tasks = [get_ohlcv(exchange, symbol) for symbol in SYMBOLS] (line 419): one
\* pending task per symbol of the list, whatever its result in the last cycle.
create_tasks(symbols, last_results) ==
    [s \in SymbolSet |-> IF InList(s, symbols) THEN Pending ELSE Idle]

\* asyncio.sleep(wait_seconds) returns (line 417) and the tasks of line 419 are
\* created: one get_ohlcv per symbol of SYMBOLS.
Sleep ==
    /\ pc = "sleeping"
    /\ results' = create_tasks(SYMBOLS, results)
    /\ pc' = "fetching"
    /\ step' = [kind |-> "sleep", sent |-> << >>,
                refetched |-> { s \in SymbolSet : results[s].st = "exc" }]
    /\ rejected' = { }
    /\ UNCHANGED << startup, closes, tg, call, earlier, env, TP_PERCENT, SL_PERCENT, defaults, runs, SYMBOLS, exchange,
                    last_signals_7_30, last_signals_9_20_rsi, error_count, idx,
                    success_count, state_storage, prevSig, excStreak >>

\* One get_ohlcv task finishes, in any order: it returns a frame or raises.
FetchSettles(s) ==
    /\ pc = "fetching"
    /\ results[s] = Pending
    /\ \E raw \in RawFetches :
         /\ results' = [results EXCEPT ![s] = get_ohlcv(raw)]
         /\ rejected' = IF raw.kind \in BadData THEN rejected \cup { s } ELSE rejected
    /\ UNCHANGED << startup, closes, tg, call, earlier, env, TP_PERCENT, SL_PERCENT, defaults, pc, runs, SYMBOLS, exchange,
                    last_signals_7_30, last_signals_9_20_rsi, error_count, idx,
                    success_count, state_storage, step, prevSig, excStreak >>

\* A wait that returns as soon as one task has finished.
first_completed(res) == \E s \in SymbolSet : res[s] \notin { Pending, Idle }

\* asyncio.gather(*tasks, return_exceptions=True) returns when every task has
\* returned or raised.
gather_done(res) == \A s \in SymbolSet : res[s] # Pending

GatherReturns ==
    /\ pc = "fetching"
    /\ gather_done(results)
    /\ pc' = "processing"
    /\ idx' = 1
    /\ success_count' = 0
    /\ step' = [kind |-> "gather", sent |-> << >>]
    /\ UNCHANGED << startup, closes, rejected, tg, call, earlier, env, TP_PERCENT, SL_PERCENT, defaults, runs, SYMBOLS, exchange,
                    last_signals_7_30, last_signals_9_20_rsi, error_count, results,
                    state_storage, prevSig, excStreak >>

\* The transition test without the comparison with the stored signal.
Transition_no_compare(last_signals, symbol, signal) == signal # None

\* The transition test without the truthiness test of the signal.
Transition_no_truthiness(last_signals, symbol, signal) == last_signals[symbol] # signal

\* The transition test of lines 430 and 439:
\* signal and last_signals.get(symbol) != signal
Transition(last_signals, symbol, signal) ==
    signal # None /\ last_signals[symbol] # signal

\* The threshold test with > in place of >=.
threshold_exceeded(count) == count > ERROR_THRESHOLD

\* The reset of the counter only when every symbol of the sweep succeeded.
count_after_full_sweep(count, successes, total) == IF successes = total THEN 0 ELSE count

\* if error_count >= ERROR_THRESHOLD (line 466), error_count already incremented.
threshold_reached(count) == count >= ERROR_THRESHOLD

\* if success_count > 0: error_count = 0 (lines 452-453).
count_after_sweep(count, successes, total) == IF successes > 0 THEN 0 ELSE count

NotRun == "NotRun"

\* An assignment that sets the entry of every symbol of the store.
store_put_all(last_signals, symbol, signal) ==
    [s \in DOMAIN last_signals |-> signal]

\* last_signals_7_30[symbol] = signal_7_30 (line 437) and
\* last_signals_9_20_rsi[symbol] = signal_9_20_rsi (line 450): one entry is set.
store_put(last_signals, symbol, signal) ==
    [last_signals EXCEPT ![symbol] = signal]

\* The store assignment moved out of the if body, after every evaluation.
stored_unconditionally(last_signals, symbol, signal, notified) ==
    store_put(last_signals, symbol, signal)

\* The store after the if statement of lines 430-437 (and 439-450): the
\* assignment is the last statement of the if body, after send_message, so the
\* store is written only when that call was made and returned.
stored(last_signals, symbol, signal, notified) ==
    IF notified THEN store_put(last_signals, symbol, signal) ELSE last_signals

\* The except handler resuming the for loop instead of leaving it.
after_exception_resuming(count) ==
    IF threshold_reached(count) THEN "STOPPED" ELSE "processing"

\* Where the except handler of lines 463-470 leaves the loop, count being the
\* incremented counter: break at the threshold, otherwise the rest of the try
\* body is abandoned and the while loop starts its next iteration.
after_exception(count) ==
    IF threshold_reached(count) THEN "STOPPED" ELSE "sleeping"

\* The symbols for which an earlier iteration of the current sweep has written a
\* store entry, read from the record of the last step.
written_so_far(observed, store1, store2) ==
    IF observed.kind # "symbol" THEN { }
    ELSE observed.written_before \cup
         (IF store1[observed.symbol] # observed.old1
             \/ store2[observed.symbol] # observed.old2
          THEN { observed.symbol } ELSE { })

\* One iteration of the for loop of line 422, for SYMBOLS[idx].  fault is where an
\* exception escapes the iteration, if it does: in the first evaluator call
\* (line 429) or in the second (line 438).
ProcessSymbol ==
    /\ pc = "processing"
    /\ idx <= Len(SYMBOLS)
    /\ results[SYMBOLS[idx]] # Pending
    /\ LET symbol == SYMBOLS[idx]
           result == results[symbol]
       IN  IF result.st = "exc"
           THEN \* lines 423-425: continue
                /\ idx' = idx + 1
                /\ step' = [kind |-> "symbol", symbol |-> symbol, skipped |-> TRUE,
                            fault |-> "none",
                            sig1 |-> NotRun, sig2 |-> NotRun,
                            old1 |-> last_signals_7_30[symbol],
                            old2 |-> last_signals_9_20_rsi[symbol],
                            prev1 |-> prevSig["7_30"][symbol],
                            prev2 |-> prevSig["9_20_rsi"][symbol],
                            err_before |-> error_count, idx_before |-> idx,
                            success_before |-> success_count,
                            written_before |->
                                written_so_far(step, last_signals_7_30,
                                               last_signals_9_20_rsi),
                            raised |-> FALSE, sent |-> << >>]
                /\ UNCHANGED << pc, exchange, closes, last_signals_7_30,
                                last_signals_9_20_rsi, error_count, success_count,
                                prevSig, excStreak >>
           ELSE \E fault \in {"none", "first", "second"}, d1 \in BOOLEAN,
                   d2 \in BOOLEAN, d3 \in BOOLEAN :
                LET df == result.df
                    price == df.close
                    run1 == fault # "first"
                    signal_7_30 == IF run1 THEN check_signal_ema7_30(df) ELSE NotRun
                    t1 == run1 /\ Transition(last_signals_7_30, symbol, signal_7_30)
                    sent1 == IF t1
                             THEN << SignalAlert(symbol, "EMA7/30", signal_7_30, price,
                                                 defaults.tp, defaults.sl,
                                                 TP_PERCENT, SL_PERCENT, d1) >>
                             ELSE << >>
                    raise1 == ~run1 \/ (t1 /\ send_message_raises(d1))
                    set1 == t1 /\ ~raise1
                    run2 == ~raise1 /\ fault # "second"
                    signal_9_20_rsi == IF run2 THEN check_signal_ema9_20_rsi(df) ELSE NotRun
                    t2 == run2 /\ Transition(last_signals_9_20_rsi, symbol, signal_9_20_rsi)
                    sent2 == IF t2
                             THEN << SignalAlert(symbol, "EMA9/20+RSI", signal_9_20_rsi, price,
                                                 defaults.tp, defaults.sl,
                                                 TP_PERCENT, SL_PERCENT, d2) >>
                             ELSE << >>
                    raise2 == ~raise1 /\ (~run2 \/ (t2 /\ send_message_raises(d2)))
                    set2 == t2 /\ ~raise2
                    raised == raise1 \/ raise2
                    observed == [kind |-> "symbol", symbol |-> symbol, skipped |-> FALSE,
                                 fault |-> fault,
                                 sig1 |-> signal_7_30, sig2 |-> signal_9_20_rsi,
                                 old1 |-> last_signals_7_30[symbol],
                                 old2 |-> last_signals_9_20_rsi[symbol],
                                 prev1 |-> prevSig["7_30"][symbol],
                                 prev2 |-> prevSig["9_20_rsi"][symbol],
                                 err_before |-> error_count, idx_before |-> idx,
                                 success_before |-> success_count,
                                 written_before |->
                                     written_so_far(step, last_signals_7_30,
                                                    last_signals_9_20_rsi),
                                 raised |-> raised, sent |-> sent1 \o sent2]
                IN  /\ success_count' = success_count + 1
                    /\ last_signals_7_30' =
                         stored(last_signals_7_30, symbol, signal_7_30, set1)
                    /\ last_signals_9_20_rsi' =
                         stored(last_signals_9_20_rsi, symbol, signal_9_20_rsi, set2)
                    /\ prevSig' =
                         [prevSig EXCEPT
                            !["7_30"][symbol] =
                                IF run1 /\ signal_7_30 # None THEN signal_7_30 ELSE @,
                            !["9_20_rsi"][symbol] =
                                IF run2 /\ signal_9_20_rsi # None THEN signal_9_20_rsi ELSE @]
                    /\ IF raised
                       THEN /\ error_count' = error_count + 1
                            /\ excStreak' = excStreak + 1
                            /\ idx' = idx
                            /\ pc' = after_exception(error_count + 1)
                            /\ IF threshold_reached(error_count + 1)
                               THEN /\ exchange' = exchange_after("threshold", exchange)
                                    /\ closes' = closes + close_calls("threshold")
                                    /\ step' = [observed EXCEPT
                                                  !.sent = @ \o << Msg("final", d3) >>]
                               ELSE /\ step' = observed
                                    /\ UNCHANGED << exchange, closes >>
                       ELSE /\ idx' = idx + 1
                            /\ step' = observed
                            /\ UNCHANGED << pc, exchange, closes, error_count, excStreak >>
    /\ UNCHANGED << startup, rejected, tg, call, earlier, env, TP_PERCENT, SL_PERCENT, defaults, runs, SYMBOLS, results,
                    state_storage >>

\* Lines 451-462 after the for loop: the counter is reset when a symbol succeeded,
\* and the status and ping messages are sent when their timers are due.
EndSweep ==
    /\ pc = "processing"
    /\ idx > Len(SYMBOLS)
    /\ error_count' = count_after_sweep(error_count, success_count, Len(SYMBOLS))
    /\ excStreak' = IF success_count > 0 THEN 0 ELSE excStreak
    /\ \E status_due \in BOOLEAN, ping_due \in BOOLEAN, d1 \in BOOLEAN, d2 \in BOOLEAN :
         step' = [kind |-> "endsweep", success |-> success_count,
                  err_before |-> error_count,
                  sent |-> (IF status_due THEN << Msg("status", d1) >> ELSE << >>)
                           \o (IF ping_due THEN << Msg("ping", d2) >> ELSE << >>)]
    /\ pc' = "sleeping"
    /\ UNCHANGED << startup, closes, rejected, tg, call, earlier, env, TP_PERCENT, SL_PERCENT, defaults, runs, SYMBOLS, exchange,
                    last_signals_7_30, last_signals_9_20_rsi, results, idx,
                    success_count, state_storage, prevSig >>

MainThread ==
    \/ Import
    \/ StartMain
    \/ Backoff
    \/ ValidateSymbols
    \/ WarmupProbe
    \/ Sleep
    \/ \E s \in SymbolSet : FetchSettles(s)
    \/ GatherReturns
    \/ ProcessSymbol
    \/ EndSweep

----------------------------------------------------------------------------
(* The polling loop of src/src/main.py, lines 144-221.  Its try body starts    *)
(* with the creation of the tasks and ends with asyncio.sleep(900); the rest   *)
(* is the loop of the single-file program.  pc = "sleeping" is the top of the  *)
(* while loop in both programs.                                                *)

\* Lines 148-149: the tasks are created at the top of the try body.
StartSweep ==
    /\ pc = "sleeping"
    /\ results' = create_tasks(SYMBOLS, results)
    /\ pc' = "fetching"
    /\ step' = [kind |-> "start", sent |-> << >>,
                refetched |-> { s \in SymbolSet : results[s].st = "exc" }]
    /\ rejected' = { }
    /\ UNCHANGED << startup, closes, tg, call, earlier, env, TP_PERCENT, SL_PERCENT, defaults,
                    runs, SYMBOLS, exchange, last_signals_7_30, last_signals_9_20_rsi,
                    error_count, idx, success_count, state_storage, prevSig, excStreak >>

\* Lines 187-211 after the for loop: the reset of the counter, the status and
\* ping messages, and asyncio.sleep(900) as the last statement of the try body.
EndSweepThenSleep ==
    /\ pc = "processing"
    /\ idx > Len(SYMBOLS)
    /\ error_count' = count_after_sweep(error_count, success_count, Len(SYMBOLS))
    /\ excStreak' = IF success_count > 0 THEN 0 ELSE excStreak
    /\ \E status_due \in BOOLEAN, ping_due \in BOOLEAN, d1 \in BOOLEAN, d2 \in BOOLEAN :
         step' = [kind |-> "endsweep_sleep", success |-> success_count,
                  err_before |-> error_count,
                  sent |-> (IF status_due THEN << Msg("status", d1) >> ELSE << >>)
                           \o (IF ping_due THEN << Msg("ping", d2) >> ELSE << >>)]
    /\ pc' = "sleeping"
    /\ UNCHANGED << startup, closes, rejected, tg, call, earlier, env, TP_PERCENT, SL_PERCENT,
                    defaults, runs, SYMBOLS, exchange, last_signals_7_30,
                    last_signals_9_20_rsi, results, idx, success_count, state_storage,
                    prevSig >>

ModularThread ==
    \/ Import
    \/ StartMain
    \/ Backoff
    \/ ValidateSymbols
    \/ WarmupProbe
    \/ StartSweep
    \/ \E s \in SymbolSet : FetchSettles(s)
    \/ GatherReturns
    \/ ProcessSymbol
    \/ EndSweepThenSleep

----------------------------------------------------------------------------
(* Restart of the process.  The program keeps its state in memory only: the  *)
(* stores are locals of main (lines 376-378), the percents and SYMBOLS are     *)
(* module globals, and nothing but the log is written to disk.  A process that *)
(* ends or is stopped and is started again runs the module from its first line.*)

MaxRestarts == 1

\* The last signal notified for each symbol by this process or an earlier one.
notified_so_far(before, store) ==
    [s \in SymbolSet |-> IF store[s] # None THEN store[s] ELSE before[s]]

ProcessRestart(watchlist) ==
    /\ pc # "import"
    /\ earlier.restarts < MaxRestarts
    /\ earlier' =
         [ restarts |-> earlier.restarts + 1,
           last_signals_7_30 |->
               notified_so_far(earlier.last_signals_7_30, last_signals_7_30),
           last_signals_9_20_rsi |->
               notified_so_far(earlier.last_signals_9_20_rsi, last_signals_9_20_rsi) ]
    /\ TP_PERCENT' = 0
    /\ SL_PERCENT' = 0
    /\ defaults' = [tp |-> 0, sl |-> 0]
    /\ pc' = "import"
    /\ runs' = 0
    /\ SYMBOLS' = watchlist
    /\ exchange' = "none"
    /\ last_signals_7_30' = EmptyStore
    /\ last_signals_9_20_rsi' = EmptyStore
    /\ error_count' = 0
    /\ results' = NoTasks
    /\ idx' = 0
    /\ success_count' = 0
    /\ state_storage' = [c \in Chats |-> None]
    /\ step' = [kind |-> "restart", sent |-> << >>]
    /\ prevSig' = [k \in {"7_30", "9_20_rsi"} |-> EmptyStore]
    /\ excStreak' = 0
    /\ startup' = NoStartup
    /\ closes' = 0
    /\ rejected' = { }
    /\ tg' = NoReply
    /\ UNCHANGED << env, call >>

----------------------------------------------------------------------------
(* Telegram thread: bot.infinity_polling() (lines 474-480) dispatches each       *)
(* incoming message to the first registered handler whose filter matches, in     *)
(* the order of registration: send_help, set_take_profit, process_tp,            *)
(* set_stop_loss, process_sl.  The dialog state is kept per chat (a private      *)
(* chat: message.from_user.id = message.chat.id).                                *)

Texts == { "/help", "/set_tp", "/set_sl", "3", "abc", "0", "nan" }

\* The polling thread is a daemon thread of a process that has a usable token.
TelegramUp ==
    /\ pc \notin { "import", "EXIT_IMPORT", "EXIT_VALIDATE", "EXIT_PROBE", "STOPPED" }
    /\ ~FalsyStr(env.TELEGRAM_TOKEN)

\* An authorization test that lets every chat through.
Unauthorized_nobody(chat) == FALSE

\* str(message.chat.id) != TELEGRAM_CHAT_ID
Unauthorized(chat) == chat # env.TELEGRAM_CHAT_ID

\* What a handler did with a message: the reply it sent with bot.reply_to and
\* the globals it left with another value.  To be written after the globals.
Handled(handler, chat, text, reply) ==
    [ handler |-> handler, chat |-> chat, text |-> text, reply |-> reply,
      changed |-> (IF TP_PERCENT' # TP_PERCENT THEN { "TP_PERCENT" } ELSE { })
                  \cup (IF SL_PERCENT' # SL_PERCENT THEN { "SL_PERCENT" } ELSE { }) ]

send_help(chat, text) ==
    /\ TelegramUp
    /\ text = "/help"
    /\ UNCHANGED << startup, closes, rejected, call, earlier, env, TP_PERCENT, SL_PERCENT,
                    defaults, pc, runs, SYMBOLS, exchange, last_signals_7_30,
                    last_signals_9_20_rsi, error_count, results, idx, success_count,
                    state_storage, step, prevSig, excStreak >>
    /\ tg' = Handled("send_help", chat, text,
                     IF Unauthorized(chat) THEN "unauthorized" ELSE "help")

set_take_profit(chat, text) ==
    /\ TelegramUp
    /\ text = "/set_tp"
    /\ state_storage' = IF Unauthorized(chat) THEN state_storage
                        ELSE [state_storage EXCEPT ![chat] = "waiting_for_tp"]
    /\ UNCHANGED << startup, closes, rejected, call, earlier, env, TP_PERCENT, SL_PERCENT,
                    defaults, pc, runs, SYMBOLS, exchange, last_signals_7_30,
                    last_signals_9_20_rsi, error_count, results, idx, success_count,
                    step, prevSig, excStreak >>
    /\ tg' = Handled("set_take_profit", chat, text,
                     IF Unauthorized(chat) THEN "unauthorized" ELSE "ask_tp")

process_tp(chat, text) ==
    /\ TelegramUp
    /\ text \notin { "/help", "/set_tp" }
    /\ state_storage[chat] = "waiting_for_tp"
    /\ LET new_tp == ParseFloat(text)
           accepted == new_tp.ok /\ ~LeqZero(new_tp.val)
       IN  /\ IF accepted
              THEN /\ TP_PERCENT' = new_tp.val
                   /\ state_storage' = [state_storage EXCEPT ![chat] = None]
              ELSE UNCHANGED << TP_PERCENT, state_storage >>
           /\ UNCHANGED << startup, closes, rejected, call, earlier, env, SL_PERCENT, defaults,
                           pc, runs, SYMBOLS, exchange, last_signals_7_30,
                           last_signals_9_20_rsi, error_count, results, idx,
                           success_count, step, prevSig, excStreak >>
           /\ tg' = Handled("process_tp", chat, text,
                            IF accepted THEN "updated" ELSE "invalid")

set_stop_loss(chat, text) ==
    /\ TelegramUp
    /\ text = "/set_sl"
    /\ state_storage[chat] # "waiting_for_tp"
    /\ state_storage' = IF Unauthorized(chat) THEN state_storage
                        ELSE [state_storage EXCEPT ![chat] = "waiting_for_sl"]
    /\ UNCHANGED << startup, closes, rejected, call, earlier, env, TP_PERCENT, SL_PERCENT,
                    defaults, pc, runs, SYMBOLS, exchange, last_signals_7_30,
                    last_signals_9_20_rsi, error_count, results, idx, success_count,
                    step, prevSig, excStreak >>
    /\ tg' = Handled("set_stop_loss", chat, text,
                     IF Unauthorized(chat) THEN "unauthorized" ELSE "ask_sl")

process_sl(chat, text) ==
    /\ TelegramUp
    /\ text \notin { "/help", "/set_tp", "/set_sl" }
    /\ state_storage[chat] = "waiting_for_sl"
    /\ LET new_sl == ParseFloat(text)
           accepted == new_sl.ok /\ ~LeqZero(new_sl.val)
       IN  /\ IF accepted
              THEN /\ SL_PERCENT' = new_sl.val
                   /\ state_storage' = [state_storage EXCEPT ![chat] = None]
              ELSE UNCHANGED << SL_PERCENT, state_storage >>
           /\ UNCHANGED << startup, closes, rejected, call, earlier, env, TP_PERCENT, defaults,
                           pc, runs, SYMBOLS, exchange, last_signals_7_30,
                           last_signals_9_20_rsi, error_count, results, idx,
                           success_count, step, prevSig, excStreak >>
           /\ tg' = Handled("process_sl", chat, text,
                            IF accepted THEN "updated" ELSE "invalid")

\* A message that matches the filter of no handler is dropped.
unhandled(chat, text) ==
    /\ TelegramUp
    /\ text \notin { "/help", "/set_tp", "/set_sl" }
    /\ state_storage[chat] = None
    /\ UNCHANGED << startup, closes, rejected, call, earlier, env, TP_PERCENT, SL_PERCENT,
                    defaults, pc, runs, SYMBOLS, exchange, last_signals_7_30,
                    last_signals_9_20_rsi, error_count, results, idx, success_count,
                    state_storage, step, prevSig, excStreak >>
    /\ tg' = Handled("unhandled", chat, text, "none")

TelegramThread ==
    \E chat \in Chats, text \in Texts :
        \/ send_help(chat, text)
        \/ set_take_profit(chat, text)
        \/ process_tp(chat, text)
        \/ set_stop_loss(chat, text)
        \/ process_sl(chat, text)
        \/ unhandled(chat, text)

----------------------------------------------------------------------------
(* Indicators, lines 229-244.  A close series is a sequence of prices; the    *)
(* values of the moving average are exact fractions num / den.                *)

RECURSIVE ewm_mean_com(_, _)
\* The recursion with the span taken as the centre of mass: alpha = 1/(span+1).
ewm_mean_com(close, span) ==
    IF Len(close) = 1 THEN << [num |-> close[1], den |-> 1] >>
    ELSE LET head == ewm_mean_com(SubSeq(close, 1, Len(close) - 1), span)
             last == head[Len(head)]
         IN  Append(head, [num |-> close[Len(close)] * last.den + span * last.num,
                              den |-> (span + 1) * last.den])

RECURSIVE ewm_mean(_, _)
\* df['close'].ewm(span=period, adjust=False).mean() (line 233): y[0] = x[0] and
\* y[t] = (1 - alpha) * y[t-1] + alpha * x[t] with alpha = 2 / (span + 1), that
\* is y[t] = (2 * x[t] + (span - 1) * y[t-1]) / (span + 1).
ewm_mean(close, span) ==
    IF Len(close) = 1 THEN << [num |-> close[1], den |-> 1] >>
    ELSE LET head == ewm_mean(SubSeq(close, 1, Len(close) - 1), span)
             last == head[Len(head)]
         IN  Append(head, [num |-> 2 * close[Len(close)] * last.den
                                      + (span - 1) * last.num,
                              den |-> (span + 1) * last.den])

\* calc_ema (lines 229-233): ValueError for a period that is not positive.
calc_ema(close, period) ==
    IF period <= 0 THEN ValueError ELSE Ok(ewm_mean(close, period))

\* A number hi * 10^10 + lo, with 0 <= lo < 10^10: the quantities of calc_rsi
\* are counted in units of 1e-10 / period, in which a rolling mean sum / period
\* is sum * 10^10 and the constant 1e-10 is period.
Big(hi, lo) == [hi |-> hi, lo |-> lo]
BigAdd(a, b) == Big(a.hi + b.hi, a.lo + b.lo)
BigLess(a, b) == a.hi < b.hi \/ (a.hi = b.hi /\ a.lo < b.lo)

\* delta = df['close'].diff() (line 237) at row i > 1; row 1 is NaN.
diff(close, i) == close[i] - close[i - 1]

\* up = delta.clip(lower=0) and down = -delta.clip(upper=0) (lines 238-239).
clip_up(delta) == IF delta > 0 THEN delta ELSE 0
clip_down(delta) == IF delta < 0 THEN 0 - delta ELSE 0

\* The rows of the window of size window that ends at row i and hold a number:
\* row 1 of the differences does not.
observations(i, window) == { j \in 2..i : j > i - window }

RECURSIVE SumOver(_, _, _)
SumOver(rows, close, up) ==
    IF rows = { } THEN 0
    ELSE LET j == CHOOSE k \in rows : TRUE
         IN  (IF up THEN clip_up(diff(close, j)) ELSE clip_down(diff(close, j)))
             + SumOver(rows \ { j }, close, up)

\* The divisor left as the average loss, zero included.
divisor_unreplaced(avg_loss, period) == avg_loss

\* avg_loss.where(avg_loss != 0, 1e-10) (line 242).
divisor(avg_loss, period) ==
    IF avg_loss # Big(0, 0) THEN avg_loss ELSE Big(0, period)

Undefined == [na |-> TRUE, num |-> Big(0, 0), den |-> Big(0, 0)]

\* calc_rsi at row i (lines 240-243): the rolling means need period numbers
\* (min_periods=period); rs = avg_gain / divisor and rsi = 100 - 100 / (1 + rs)
\* = 100 * num / den with num = avg_gain and den = avg_gain + divisor.  A zero
\* divisor gives 100 for a positive avg_gain (rs is inf) and NaN for 0 / 0.
rsi_at(close, period, i) ==
    LET rows == observations(i, period)
    IN  IF Cardinality(rows) < period THEN Undefined
        ELSE LET avg_gain == Big(SumOver(rows, close, TRUE), 0)
                 avg_loss == Big(SumOver(rows, close, FALSE), 0)
                 d == divisor(avg_loss, period)
             IN  IF avg_gain = Big(0, 0) /\ d = Big(0, 0) THEN Undefined
                 ELSE [na |-> FALSE, num |-> avg_gain, den |-> BigAdd(avg_gain, d)]

\* calc_rsi (lines 235-244): one value per row of the series.
calc_rsi(close, period) == [i \in 1..Len(close) |-> rsi_at(close, period, i)]

----------------------------------------------------------------------------
(* The evaluators and the price calculator applied on their own *)

Levels == { 9, 10, 11 }
RsiLevels == { 44, 45, 46, 54, 55, 56 }
Lengths == { LIMIT - 1, LIMIT }

\* Series for check_signal_ema7_30: every order of the fast line, the slow line
\* and the close on the last two bars.  before holds the lines one bar earlier,
\* which the evaluator does not read.
CrossoverFrames ==
    { [ len |-> n, close |-> c, ema7 |-> << f2, f1 >>, ema30 |-> << s2, s1 >>,
        before |-> b ] :
        n \in Lengths, c \in Levels, f2 \in Levels, f1 \in Levels,
        s2 \in Levels, s1 \in Levels, b \in { << 9, 10 >>, << 11, 10 >> } }

\* Series for check_signal_ema9_20_rsi: every order of the lines on the last two
\* bars, RSI values around both thresholds, defined or not.
MomentumFrames ==
    { [ len |-> n, ema9 |-> << f2, f1 >>, ema20 |-> << 10, 10 >>,
        rsi |-> << r2, r1 >>, rsi_na |-> << na2, na1 >> ] :
        n \in Lengths, f2 \in Levels, f1 \in Levels,
        r2 \in RsiLevels, r1 \in RsiLevels, na2 \in BOOLEAN, na1 \in BOOLEAN }

\* Arguments of calc_oco_prices: prices from 0.01 to 100 in units of 1e-4.
Directions == { "LONG", "LONG (RSI)", "SHORT", "SHORT (RSI)", "long" }
PricesE4 == { 100, 5000, 80000, 100000, 120000, 1000000 }
Percents == { 1, 2, 3 }

OcoArguments ==
    [ direction : Directions, price_e4 : PricesE4, tp_perc : Percents, sl_perc : Percents ]

\* Close series of 1 to MaxLen bars, and the periods the indicators are given.
MaxLen == 4
CloseLevels == { 8, 10, 12 }
CloseSeries == UNION { [1..n -> CloseLevels] : n \in 1..MaxLen }
EmaPeriods == { -1, 0, 1, 2, 7 }
RsiPeriods == { 1, 2, 3 }

Calls ==
    { [fn |-> "check_signal_ema7_30", arg |-> df, out |-> << >>] : df \in CrossoverFrames }
    \cup { [fn |-> "check_signal_ema9_20_rsi", arg |-> df, out |-> << >>] :
              df \in MomentumFrames }
    \cup { [fn |-> "calc_oco_prices", arg |-> a, out |-> << >>] : a \in OcoArguments }
    \cup { [fn |-> "calc_ema", arg |-> [close |-> c, period |-> p], out |-> << >>] :
              c \in CloseSeries, p \in EmaPeriods }
    \cup { [fn |-> "calc_rsi", arg |-> [close |-> c, period |-> p], out |-> << >>] :
              c \in CloseSeries, p \in RsiPeriods }

\* The program before its import, and a function with its arguments.
InitCalls ==
    /\ env = [ TELEGRAM_TOKEN |-> Unset, TELEGRAM_CHAT_ID |-> Unset,
               TAKE_PROFIT_PERCENT |-> Unset, STOP_LOSS_PERCENT |-> Unset ]
    /\ TP_PERCENT = 0
    /\ SL_PERCENT = 0
    /\ defaults = [tp |-> 0, sl |-> 0]
    /\ pc = "import"
    /\ runs = 0
    /\ SYMBOLS = ConfiguredSymbols
    /\ exchange = "none"
    /\ last_signals_7_30 = EmptyStore
    /\ last_signals_9_20_rsi = EmptyStore
    /\ error_count = 0
    /\ results = NoTasks
    /\ idx = 0
    /\ success_count = 0
    /\ state_storage = [c \in Chats |-> None]
    /\ step = NoStep
    /\ prevSig = [k \in {"7_30", "9_20_rsi"} |-> EmptyStore]
    /\ excStreak = 0
    /\ startup = NoStartup
    /\ closes = 0
    /\ rejected = { }
    /\ tg = NoReply
    /\ call \in Calls
    /\ earlier = NoEarlier

\* The function is applied and returns.
Apply ==
    /\ call.fn # "none"
    /\ call.out = << >>
    /\ call' = [call EXCEPT !.out =
                  << CASE call.fn = "check_signal_ema7_30" ->
                            check_signal_ema7_30(call.arg)
                       [] call.fn = "check_signal_ema9_20_rsi" ->
                            check_signal_ema9_20_rsi(call.arg)
                       [] call.fn = "calc_oco_prices" ->
                            calc_oco_prices_e4(call.arg.direction, call.arg.price_e4,
                                               call.arg.tp_perc, call.arg.sl_perc)
                       [] call.fn = "calc_ema" ->
                            calc_ema(call.arg.close, call.arg.period)
                       [] call.fn = "calc_rsi" ->
                            calc_rsi(call.arg.close, call.arg.period) >>]
    /\ UNCHANGED << startup, closes, rejected, tg, earlier, env, TP_PERCENT, SL_PERCENT,
                    defaults, pc, runs, SYMBOLS, exchange, last_signals_7_30,
                    last_signals_9_20_rsi, error_count, results, idx, success_count,
                    state_storage, step, prevSig, excStreak >>

----------------------------------------------------------------------------
(* Specifications *)

Next == MainThread \/ TelegramThread

\* The whole program: the main thread and the Telegram thread.
Spec == Init /\ [][Next]_vars

\* The main thread alone: the runs in which no Telegram message arrives.
SpecPolling == Init /\ [][MainThread]_vars

\* The main thread and the Telegram thread, with a watch-list of one symbol.
SpecControl == InitOne /\ [][Next]_vars

\* The take-profit dialog of the configured chat: /set_tp and a new percent.
TakeProfitDialog ==
    \E text \in { "/set_tp", "3" } :
        \/ set_take_profit(OwnerChat, text)
        \/ process_tp(OwnerChat, text)
        \/ unhandled(OwnerChat, text)

\* The program started with the default percents, a watch-list of one symbol
\* and a Telegram thread that receives only the messages of that dialog.
InitDefaultPercents ==
    /\ InitOne
    /\ env.TAKE_PROFIT_PERCENT = Unset
    /\ env.STOP_LOSS_PERCENT = Unset

SpecTakeProfit == InitDefaultPercents /\ [][MainThread \/ TakeProfitDialog]_vars

\* The evaluators and the price calculator, each applied once to every input.
SpecCalls == InitCalls /\ [][Apply]_vars

\* The main thread with the polling loop of src/src/main.py, with a watch-list
\* of one symbol.
SpecModular == InitOne /\ [][ModularThread]_vars

\* The main thread with a watch-list of one symbol, in a process that may be
\* stopped and started again with the same environment.
SpecRestart ==
    InitOne /\ [][MainThread \/ ProcessRestart(<< ConfiguredSymbols[1] >>)]_vars

\* The start of the main thread, up to its first asyncio.sleep.
Startup == Import \/ StartMain \/ Backoff \/ ValidateSymbols \/ WarmupProbe

\* The Telegram thread while the main thread starts and then sleeps before its
\* first cycle.
SpecDialog == Init /\ [][Startup \/ TelegramThread]_vars

----------------------------------------------------------------------------
(* Properties *)

Store(strategy) ==
    IF strategy = "EMA7/30" THEN last_signals_7_30 ELSE last_signals_9_20_rsi

\* The signal alerts of a strategy among the messages of the last step.
AlertsOf(strategy) ==
    { i \in DOMAIN step.sent :
        step.sent[i].kind = "signal" /\ step.sent[i].strategy = strategy }

FailedAlerts ==
    { i \in DOMAIN step.sent :
        step.sent[i].kind = "signal" /\ ~step.sent[i].delivered }

Evaluated == step.kind = "symbol" /\ ~step.skipped

\* The number of alerts a computed signal must cause: one when it is a real
\* signal that differs from the last real signal computed for the pair.
Changes(signal, previous) ==
    IF signal \notin { None, NotRun } /\ signal # previous THEN 1 ELSE 0

\* C1: every evaluation of a (symbol, strategy) pair dispatches exactly one
\* notification, for that pair and signal, when the computed signal is a real
\* one that differs from the last real signal computed for the pair, and none
\* otherwise; so the notifications of a pair count the changes of its sequence
\* of real signals (the first one included, "no signal" results skipped).
C1_OneNotificationPerChange ==
    Evaluated =>
        /\ Cardinality(AlertsOf("EMA7/30")) = Changes(step.sig1, step.prev1)
        /\ Cardinality(AlertsOf("EMA9/20+RSI")) = Changes(step.sig2, step.prev2)
        /\ \A i \in AlertsOf("EMA7/30") :
              step.sent[i].symbol = step.symbol /\ step.sent[i].signal = step.sig1
        /\ \A i \in AlertsOf("EMA9/20+RSI") :
              step.sent[i].symbol = step.symbol /\ step.sent[i].signal = step.sig2

\* The same real signal computed again for a pair, after a "no signal" or not:
\* no notification.
C1_Witness ==
    /\ Evaluated
    /\ step.sig1 = "LONG" /\ step.prev1 = "LONG" /\ AlertsOf("EMA7/30") = {}
    /\ step.sig2 = "LONG (RSI)" /\ step.prev2 = "SHORT (RSI)"
    /\ Cardinality(AlertsOf("EMA9/20+RSI")) = 1

\* C2: a "no signal" result leaves the store entry of the pair as it was and
\* dispatches nothing for it, and an entry that holds a signal never goes back
\* to empty.
C2_NoSignalKeepsStore ==
    Evaluated =>
        /\ step.sig1 = None =>
              /\ last_signals_7_30[step.symbol] = step.old1
              /\ AlertsOf("EMA7/30") = {}
        /\ step.sig2 = None =>
              /\ last_signals_9_20_rsi[step.symbol] = step.old2
              /\ AlertsOf("EMA9/20+RSI") = {}
        /\ step.old1 # None => last_signals_7_30[step.symbol] # None
        /\ step.old2 # None => last_signals_9_20_rsi[step.symbol] # None

\* A "no signal" result for a pair whose entry holds a signal.
C2_Witness ==
    /\ Evaluated
    /\ step.sig1 = None /\ step.old1 = "LONG"
    /\ last_signals_7_30[step.symbol] = "LONG"
    /\ step.sig2 = None /\ step.old2 = "SHORT (RSI)"

\* C3: when the send of a signal alert fails, the store entry of its pair holds
\* the new signal all the same, and the failure raises nothing: unless an
\* exception of another origin escapes the iteration, the counter is not
\* incremented and the sweep goes on with the next symbol.
C3_SendFailureSwallowed ==
    (step.kind = "symbol" /\ FailedAlerts # {}) =>
        /\ \A i \in FailedAlerts :
              /\ Store(step.sent[i].strategy)[step.sent[i].symbol] = step.sent[i].signal
              /\ prevSig[IF step.sent[i].strategy = "EMA7/30" THEN "7_30" ELSE "9_20_rsi"]
                        [step.sent[i].symbol] = step.sent[i].signal
        /\ step.fault = "none" =>
              /\ ~step.raised
              /\ error_count = step.err_before
              /\ pc = "processing"
              /\ idx = step.idx_before + 1

\* A failed send for the first symbol of a sweep of two.
C3_Witness ==
    /\ step.kind = "symbol" /\ step.fault = "none"
    /\ FailedAlerts # {}
    /\ pc = "processing" /\ idx = Len(SYMBOLS) /\ Len(SYMBOLS) > 1

\* C4, as claimed, for the program started with the default percents: every
\* alert carries the prices computed with the take-profit and stop-loss percents
\* in force when it is constructed, so with the last percent the control
\* surface accepted.
C4_AlertsUseCurrentPercents ==
    (env.TAKE_PROFIT_PERCENT = Unset /\ env.STOP_LOSS_PERCENT = Unset) =>
        \A i \in DOMAIN step.sent :
            step.sent[i].kind = "signal" =>
                << step.sent[i].tp, step.sent[i].sl_tr, step.sent[i].sl_mkt >>
                    = calc_oco_prices(step.sent[i].signal, step.sent[i].price,
                                      step.sent[i].tp_now, step.sent[i].sl_now)

\* C5, as claimed: a sweep in which no symbol succeeded increments the
\* consecutive-failure counter.
C5_ZeroSuccessCountsAsFailure ==
    (step.kind = "endsweep" /\ step.success = 0) =>
        error_count = step.err_before + 1

ExitedPcs == { "EXIT_IMPORT", "EXIT_VALIDATE", "EXIT_PROBE", "STOPPED" }

FinalAlerts == { i \in DOMAIN step.sent : step.sent[i].kind = "final" }

\* C6: the counter reaches ERROR_THRESHOLD exactly when the loop is left for
\* STOPPED; the step that leaves it hands exactly one final alert to the
\* notifier, as its last message, and closes the exchange; in STOPPED no step of
\* the program is possible any more.
C6_ThresholdStopsForGood ==
    /\ error_count >= ERROR_THRESHOLD <=> pc = "STOPPED"
    /\ error_count <= ERROR_THRESHOLD
    /\ pc = "STOPPED" =>
          /\ step.kind = "symbol" /\ step.raised
          /\ FinalAlerts = { Len(step.sent) }
          /\ exchange = "closed"
          /\ ~ENABLED Next
    /\ pc # "STOPPED" => FinalAlerts = {}

C6_Witness ==
    /\ pc = "STOPPED"
    /\ error_count = ERROR_THRESHOLD
    /\ Len(step.sent) > 1

\* C7: skipping a symbol whose fetch failed never changes the counter; a sweep
\* that ends with at least one success leaves the counter at zero and no end of
\* sweep increments it; the counter is the number of cycle-level exceptions
\* since the last sweep that ended with a success.
C7_OnlyCycleExceptionsCount ==
    /\ (step.kind = "symbol" /\ step.skipped) => error_count = step.err_before
    /\ (step.kind = "symbol" /\ ~step.raised) => error_count = step.err_before
    /\ step.kind = "endsweep" =>
          /\ step.success > 0 => error_count = 0
          /\ error_count <= step.err_before
    /\ error_count = excStreak

\* A sweep with one failed fetch and one success resets a counter that was up.
C7_Witness ==
    /\ step.kind = "endsweep"
    /\ step.success = 1 /\ Len(SYMBOLS) = 2
    /\ \E s \in SymbolSet : results[s] = Raised
    /\ step.err_before = ERROR_THRESHOLD - 1
    /\ error_count = 0

\* C8: while a fetch of the cycle is unsettled the main coroutine is still at
\* the gather of that cycle: the last thing it did is create the tasks; every
\* evaluation, store update and signal alert of a cycle comes after all its
\* fetches have returned or raised.
C8_GatherIsBarrier ==
    /\ (\E s \in SymbolSet : results[s] = Pending) =>
          /\ pc = "fetching"
          /\ step.kind = "sleep"
    /\ pc = "processing" =>
          \A i \in 1..Len(SYMBOLS) : results[SYMBOLS[i]].st \in { "ok", "exc" }

\* The second symbol's fetch has returned a frame with signals while the first
\* symbol's is outstanding: nothing has been evaluated.
C8_Witness ==
    /\ pc = "fetching" /\ Len(SYMBOLS) = 2
    /\ results[SYMBOLS[1]] = Pending
    /\ results[SYMBOLS[2]] = Returned(FrameUp)
    /\ step.kind = "sleep"
    /\ last_signals_7_30[SYMBOLS[2]] = None

\* C9: a symbol whose fetch failed is skipped without evaluation, notification
\* or store change, the sweep goes on after it and, when it ends, has evaluated
\* every symbol whose fetch succeeded; the tasks of every cycle cover the whole
\* validated list, the symbols that failed in the cycle before included.
C9_FailedSymbolSkippedAndRefetched ==
    /\ (step.kind = "symbol" /\ step.skipped) =>
          /\ results[step.symbol] = Raised
          /\ step.sig1 = NotRun /\ step.sig2 = NotRun
          /\ step.sent = << >>
          /\ last_signals_7_30[step.symbol] = step.old1
          /\ last_signals_9_20_rsi[step.symbol] = step.old2
          /\ pc = "processing" /\ idx = step.idx_before + 1
    /\ (step.kind = "symbol" /\ ~step.skipped) => results[step.symbol].st = "ok"
    /\ step.kind = "endsweep" =>
          step.success = Cardinality({ i \in 1..Len(SYMBOLS) : results[SYMBOLS[i]].st = "ok" })
    /\ pc = "fetching" =>
          /\ \A i \in 1..Len(SYMBOLS) : results[SYMBOLS[i]] # Idle
          /\ step.kind = "sleep" =>
                \A s \in step.refetched : InList(s, SYMBOLS) /\ results[s] # Idle

\* The first symbol failed in the last cycle and has a task again, after a sweep
\* in which the other symbol was evaluated.
C9_Witness ==
    /\ pc = "fetching" /\ step.kind = "sleep"
    /\ Len(SYMBOLS) = 2
    /\ step.refetched = { SYMBOLS[1] }
    /\ results[SYMBOLS[1]] = Pending
    /\ last_signals_7_30[SYMBOLS[2]] # None

\* C10, as claimed: when check_tokens rejects the configuration the process has
\* exited, and main is not called again.
C10_InvalidConfigIsFatal ==
    /\ (step.kind = "check_tokens" /\ ~step.ok) => pc \in ExitedPcs
    /\ runs <= 1

PollingPcs == { "sleeping", "fetching", "processing" }

\* C11: the polling loop runs only after validation has produced a non-empty
\* list and the test request for the first symbol of that list has succeeded; a
\* market listing that fails, an empty intersection or a failed test request
\* ends the run with no task ever created and no step possible; the polled list
\* is the configured symbols that the exchange lists, in the configured order.
C11_RunningOnlyAfterStartup ==
    /\ pc \in PollingPcs \cup { "STOPPED" } =>
          /\ startup.listed # << >>
          /\ SYMBOLS = startup.listed
          /\ startup.probed = SYMBOLS[1]
    /\ step.kind = "validate" =>
          LET listed == ListedInOrder(step.configured, step.markets)
          IN  IF step.loaded /\ listed # << >>
              THEN pc = "probe" /\ SYMBOLS = listed
              ELSE pc = "EXIT_VALIDATE"
    /\ step.kind = "probe" =>
          /\ step.symbol = SYMBOLS[1]
          /\ IF step.raw = "data" THEN pc = "sleeping" ELSE pc = "EXIT_PROBE"
    /\ pc \in { "EXIT_VALIDATE", "EXIT_PROBE" } =>
          /\ results = NoTasks
          /\ ~ENABLED Next

\* The exchange lists only the second configured symbol: the loop polls that one.
C11_Witness ==
    /\ pc = "fetching"
    /\ SYMBOLS = << ConfiguredSymbols[2] >>
    /\ startup.probed = ConfiguredSymbols[2]
    /\ results[ConfiguredSymbols[2]] = Pending

\* C12: the exchange handle a run of main opens is closed exactly once when the
\* run ends, by a failed validation, a failed test request or the threshold
\* stop, and not before; no fetch is created or outstanding once it is closed.
C12_ExchangeClosedOnce ==
    /\ pc \in { "EXIT_VALIDATE", "EXIT_PROBE", "STOPPED" } =>
          exchange = "closed" /\ closes = 1
    /\ pc \in { "validating", "probe" } \cup PollingPcs =>
          exchange = "open" /\ closes = 0
    /\ exchange = "none" => closes = 0
    /\ exchange = "closed" =>
          /\ \A s \in SymbolSet : results[s] # Pending
          /\ ~ENABLED (WarmupProbe \/ Sleep \/ \E s \in SymbolSet : FetchSettles(s))

\* The run ended by a failed test request, or by the threshold stop after
\* fetches were made.
C12_Witness ==
    /\ exchange = "closed" /\ closes = 1
    /\ pc = "STOPPED"
    /\ \E s \in SymbolSet : results[s].st = "ok"

Stranger(chat) == chat # env.TELEGRAM_CHAT_ID

\* C13: a chat other than the configured recipient is never in a waiting state;
\* its /set_tp and /set_sl (and /help) are answered with the rejection, whatever
\* it sends changes neither percent, and every change of a percent is made by
\* the input handler of a dialog of the configured chat.
C13_OnlyOwnerChangesPercents ==
    /\ \A chat \in Chats : Stranger(chat) => state_storage[chat] = None
    /\ tg.handler # "none" =>
          /\ (Stranger(tg.chat) /\ tg.text \in { "/help", "/set_tp", "/set_sl" }) =>
                tg.reply = "unauthorized"
          /\ Stranger(tg.chat) =>
                /\ tg.handler \in { "send_help", "set_take_profit", "set_stop_loss", "unhandled" }
                /\ tg.changed = { }
          /\ tg.changed # { } =>
                /\ tg.chat = env.TELEGRAM_CHAT_ID
                /\ tg.handler \in { "process_tp", "process_sl" }

\* Another chat sends /set_tp while the configured chat is in the middle of its
\* own take-profit dialog.
C13_Witness ==
    /\ tg.handler = "set_take_profit" /\ tg.reply = "unauthorized"
    /\ tg.chat # OwnerChat
    /\ state_storage[OwnerChat] = "waiting_for_tp"
    /\ state_storage[tg.chat] = None

\* A text that denotes a strictly positive number.
PositiveNumber(text) ==
    LET value == ParseFloat(text)
    IN  value.ok /\ value.val # NaN /\ value.val > 0

\* C14, as claimed: an input that is not a number or not strictly positive is
\* answered with the rejection and changes neither percent; an accepted input
\* changes at most the percent its dialog addresses.
C14_InvalidInputRejected ==
    tg.handler \in { "process_tp", "process_sl" } =>
        IF PositiveNumber(tg.text)
        THEN /\ tg.reply = "updated"
             /\ tg.changed \subseteq
                    { IF tg.handler = "process_tp" THEN "TP_PERCENT" ELSE "SL_PERCENT" }
        ELSE /\ tg.reply = "invalid"
             /\ tg.changed = { }

\* C17: for a series shorter than LIMIT both evaluators return "no signal" and
\* raise nothing: unless an exception of another origin escapes, nothing is sent,
\* the stores and the counter keep their values, the symbol is counted as a
\* success and the sweep goes on with the next symbol.
C17_ShortSeriesIsNoSignal ==
    (Evaluated /\ results[step.symbol].df.len < LIMIT) =>
        /\ step.sig1 \in { None, NotRun } /\ step.sig2 \in { None, NotRun }
        /\ \A i \in DOMAIN step.sent : step.sent[i].kind # "signal"
        /\ last_signals_7_30[step.symbol] = step.old1
        /\ last_signals_9_20_rsi[step.symbol] = step.old2
        /\ success_count = step.success_before + 1
        /\ step.fault = "none" =>
              /\ step.sig1 = None /\ step.sig2 = None
              /\ step.sent = << >>
              /\ ~step.raised
              /\ error_count = step.err_before
              /\ pc = "processing" /\ idx = step.idx_before + 1

\* A short series whose last two bars cross, for the first symbol of two, while
\* the counter is up.
C17_Witness ==
    /\ Evaluated /\ step.fault = "none"
    /\ results[step.symbol] = Returned(FrameShort)
    /\ step.idx_before = 1 /\ Len(SYMBOLS) = 2
    /\ error_count > 0

\* C20: a symbol whose fetched data is empty, has a missing value or a price
\* that is not positive has a raised fetch: it is never evaluated, and its
\* iteration is a skip that sends nothing and leaves stores and counter as
\* they were.
C20_BadDataNeverEvaluated ==
    /\ \A s \in rejected : results[s] = Raised
    /\ Evaluated => step.symbol \notin rejected
    /\ (step.kind = "symbol" /\ step.symbol \in rejected) =>
          /\ step.skipped
          /\ step.sig1 = NotRun /\ step.sig2 = NotRun
          /\ step.sent = << >>
          /\ last_signals_7_30[step.symbol] = step.old1
          /\ last_signals_9_20_rsi[step.symbol] = step.old2
          /\ error_count = step.err_before
          /\ success_count = step.success_before

\* Refused data for a symbol whose store entry holds a signal, after the other
\* symbol was evaluated in the same sweep.
C20_Witness ==
    /\ step.kind = "symbol" /\ step.symbol \in rejected
    /\ step.old1 = "LONG"
    /\ step.idx_before = 2 /\ step.success_before = 1

Returned_by(fn) == call.fn = fn /\ call.out # << >>

\* The conditions of the crossover strategy on the last two bars.
CrossoverLong(df) ==
    /\ df.ema7[1] < df.ema30[1] /\ df.ema7[2] > df.ema30[2]
    /\ df.close > df.ema7[2] /\ df.close > df.ema30[2]

CrossoverShort(df) ==
    /\ df.ema7[1] > df.ema30[1] /\ df.ema7[2] < df.ema30[2]
    /\ df.close < df.ema7[2] /\ df.close < df.ema30[2]

\* C15: on a series of at least LIMIT bars the crossover evaluator returns LONG
\* exactly when the four inequalities hold on the last two bars, SHORT exactly
\* when the four reversed ones hold, and no signal in every other case, a case
\* with an equality or with a cross one bar earlier included; the two sets of
\* conditions never hold together.
C15_CrossoverExact ==
    (Returned_by("check_signal_ema7_30") /\ call.arg.len >= LIMIT) =>
        LET df == call.arg
            signal == call.out[1]
        IN  /\ signal = "LONG" <=> CrossoverLong(df)
            /\ signal = "SHORT" <=> CrossoverShort(df)
            /\ signal = None <=> ~CrossoverLong(df) /\ ~CrossoverShort(df)
            /\ ~(CrossoverLong(df) /\ CrossoverShort(df))
            /\ (df.ema7[1] = df.ema30[1] \/ df.ema7[2] = df.ema30[2]
                  \/ df.close = df.ema7[2] \/ df.close = df.ema30[2]) => signal = None

\* The fast line crossed above the slow line one bar before the last two, and
\* stays above with the close above both: no signal.
C15_Witness ==
    /\ Returned_by("check_signal_ema7_30") /\ call.arg.len >= LIMIT
    /\ call.arg.before[1] < call.arg.before[2]
    /\ call.arg.ema7[1] > call.arg.ema30[1] /\ call.arg.ema7[2] > call.arg.ema30[2]
    /\ call.arg.close > call.arg.ema7[2] /\ call.arg.close > call.arg.ema30[2]
    /\ call.out[1] = None

CrossUp(df) == df.ema9[1] < df.ema20[1] /\ df.ema9[2] > df.ema20[2]
CrossDown(df) == df.ema9[1] > df.ema20[1] /\ df.ema9[2] < df.ema20[2]
RsiDefined(df) == ~df.rsi_na[1] /\ ~df.rsi_na[2]

\* C16: on a series of at least LIMIT bars the momentum evaluator returns
\* LONG (RSI) exactly when the RSI is defined on both bars, the fast line crosses
\* above the slow line, rsi[-2] > 55 and rsi[-1] <= 55; SHORT (RSI) exactly when
\* the RSI is defined, the fast line crosses below, rsi[-2] < 45 and
\* rsi[-1] >= 45; no signal otherwise, so none when the RSI is undefined on
\* either bar whatever the lines do.
C16_MomentumExact ==
    (Returned_by("check_signal_ema9_20_rsi") /\ call.arg.len >= LIMIT) =>
        LET df == call.arg
            signal == call.out[1]
            long == RsiDefined(df) /\ CrossUp(df) /\ df.rsi[1] > 55 /\ df.rsi[2] <= 55
            short == RsiDefined(df) /\ CrossDown(df) /\ df.rsi[1] < 45 /\ df.rsi[2] >= 45
        IN  /\ signal = "LONG (RSI)" <=> long
            /\ signal = "SHORT (RSI)" <=> short
            /\ signal = None <=> ~long /\ ~short
            /\ ~RsiDefined(df) => signal = None

\* An upward cross with the RSI on the threshold at the last bar: LONG (RSI).
C16_Witness ==
    /\ Returned_by("check_signal_ema9_20_rsi") /\ call.arg.len >= LIMIT
    /\ RsiDefined(call.arg) /\ CrossUp(call.arg)
    /\ call.arg.rsi = << 56, 55 >>
    /\ call.out[1] = "LONG (RSI)"

\* The labels that begin with LONG.
LongFamily == { "LONG", "LONG (RSI)" }

\* price * (100 + percent) / 100 and amount * thousandths / 1000, rounded to a
\* whole number of units of 1e-4.
Rounded4(amount_e4, numerator, denominator) ==
    RoundDiv(amount_e4 * numerator, denominator)

\* C18: the price calculator returns, rounded to 4 decimals, the LONG formulas
\* for the labels that begin with LONG and the SHORT formulas for every other
\* label; for price 100, tp 2, sl 1 LONG gives (102.0, 99.0, 98.901) and SHORT
\* gives (98.0, 101.0, 101.101).
C18_PriceFormulas ==
    Returned_by("calc_oco_prices") =>
        LET a == call.arg
            prices == call.out[1]
        IN  /\ a.direction \in LongFamily =>
                  /\ prices[1] = Rounded4(a.price_e4, 100 + a.tp_perc, 100)
                  /\ prices[2] = Rounded4(a.price_e4, 100 - a.sl_perc, 100)
                  /\ prices[3] = Rounded4(prices[2], 999, 1000)
            /\ a.direction \notin LongFamily =>
                  /\ prices[1] = Rounded4(a.price_e4, 100 - a.tp_perc, 100)
                  /\ prices[2] = Rounded4(a.price_e4, 100 + a.sl_perc, 100)
                  /\ prices[3] = Rounded4(prices[2], 1001, 1000)
            /\ (a.price_e4 = 1000000 /\ a.tp_perc = 2 /\ a.sl_perc = 1) =>
                  prices = IF a.direction \in LongFamily
                           THEN << 1020000, 990000, 989010 >>
                           ELSE << 980000, 1010000, 1011010 >>

\* LONG (RSI) at price 100 with tp 2 and sl 1.
C18_Witness ==
    /\ Returned_by("calc_oco_prices")
    /\ call.arg = [direction |-> "LONG (RSI)", price_e4 |-> 1000000,
                   tp_perc |-> 2, sl_perc |-> 1]
    /\ call.out[1] = << 1020000, 990000, 989010 >>

\* C19, as claimed: the stop-loss market price the calculator returns is strictly
\* below the stop-loss trigger it returns for the LONG family, and strictly
\* above it for the SHORT family.
C19_MarketPriceClearsTrigger ==
    Returned_by("calc_oco_prices") =>
        LET prices == call.out[1]
        IN  IF call.arg.direction \in LongFamily
            THEN prices[3] < prices[2]
            ELSE prices[3] > prices[2]

\* C28: in every reachable state the cycle-failure counter lies between 0 and
\* ERROR_THRESHOLD, and whenever the loop is at the top of a sweep, has created
\* the tasks of a sweep or is processing its results, the counter is strictly
\* below ERROR_THRESHOLD.
C28_CounterBounded ==
    /\ error_count \in 0..ERROR_THRESHOLD
    /\ pc \in PollingPcs => error_count < ERROR_THRESHOLD
    /\ step.kind = "sleep" => error_count < ERROR_THRESHOLD
    /\ error_count = ERROR_THRESHOLD => pc = "STOPPED"

\* A sweep starts with four consecutive failed cycles on the counter.
C28_Witness ==
    /\ step.kind = "sleep"
    /\ pc = "fetching"
    /\ error_count = ERROR_THRESHOLD - 1

\* The last step dispatched an alert for the triple (symbol, strategy, signal).
Dispatched(observed, symbol, strategy, signal) ==
    /\ observed.kind = "symbol"
    /\ observed.symbol = symbol
    /\ \E i \in DOMAIN observed.sent :
         /\ observed.sent[i].kind = "signal"
         /\ observed.sent[i].symbol = symbol
         /\ observed.sent[i].strategy = strategy
         /\ observed.sent[i].signal = signal

\* C21: every step that changes an entry of a signal store is an iteration of
\* the polling loop for the symbol of that entry in which a notification for the
\* same symbol, strategy and signal was handed to the notifier; no other step
\* (fetches, evaluator calls, start-up, end of sweep) writes a store, and no
\* entry is written without a dispatch attempt.
C21_StoreWrittenOnlyAfterDispatch ==
    [][ \A s \in SymbolSet :
          /\ last_signals_7_30'[s] # last_signals_7_30[s] =>
                Dispatched(step', s, "EMA7/30", last_signals_7_30'[s])
          /\ last_signals_9_20_rsi'[s] # last_signals_9_20_rsi[s] =>
                Dispatched(step', s, "EMA9/20+RSI", last_signals_9_20_rsi'[s]) ]_vars

\* An entry goes from LONG to SHORT in a step whose alert Telegram refused.
C21_Witness ==
    /\ Evaluated
    /\ step.old1 = "LONG"
    /\ last_signals_7_30[step.symbol] = "SHORT"
    /\ \E i \in DOMAIN step.sent :
         /\ step.sent[i].kind = "signal"
         /\ step.sent[i].strategy = "EMA7/30"
         /\ ~step.sent[i].delivered

\* The store a step must leave for one strategy: the entry of the processed
\* symbol takes the computed signal when that is a real signal other than the
\* stored one, and nothing else changes.
EntryOnly(last_signals, symbol, signal) ==
    [s \in SymbolSet |->
        IF s = symbol /\ signal \notin { None, NotRun } /\ signal # last_signals[s]
        THEN signal
        ELSE last_signals[s]]

\* C27: the entries of the stores are independent per symbol and strategy: an
\* iteration for a symbol changes at most that symbol's entry of each store, the
\* crossover entry by the crossover signal alone and the momentum entry by the
\* momentum signal alone, every entry of every other symbol is left unchanged,
\* and a step that is no iteration changes no entry.
C27_EntriesIndependent ==
    [][ IF step'.kind = "symbol"
        THEN /\ last_signals_7_30' =
                  EntryOnly(last_signals_7_30, step'.symbol, step'.sig1)
             /\ last_signals_9_20_rsi' =
                  EntryOnly(last_signals_9_20_rsi, step'.symbol, step'.sig2)
        ELSE /\ last_signals_7_30' = last_signals_7_30
             /\ last_signals_9_20_rsi' = last_signals_9_20_rsi ]_vars

\* The crossover entry of the second symbol goes from SHORT to LONG while its
\* momentum entry and both entries of the first symbol keep their SHORT signals.
C27_Witness ==
    /\ Evaluated
    /\ step.symbol = "ETH/USDT"
    /\ step.old1 = "SHORT"
    /\ step.sig1 = "LONG"
    /\ step.sig2 = None
    /\ last_signals_7_30["ETH/USDT"] = "LONG"
    /\ last_signals_9_20_rsi["ETH/USDT"] = "SHORT (RSI)"
    /\ last_signals_7_30["BTC/USDT"] = "SHORT"
    /\ last_signals_9_20_rsi["BTC/USDT"] = "SHORT (RSI)"

\* An iteration out of which an exception escaped.
RaisedStep(observed) == observed.kind = "symbol" /\ observed.raised

\* C29: when an exception escapes the iteration of one symbol, the sweep is
\* abandoned (the loop goes to its next cycle, or stops at the threshold, with
\* the later symbols never processed), the alerts of that iteration stay sent,
\* and the store entries written earlier in the sweep, and by the iteration
\* itself before the exception, are kept: they still hold the signal of this
\* sweep's frame, the step that follows is the start of the next cycle and
\* changes no entry, and an evaluation that computes the stored signal
\* dispatches no alert.
C29_ExceptionKeepsEarlierWrites ==
    [][ /\ RaisedStep(step') =>
              /\ pc' \in { "sleeping", "STOPPED" }
              /\ idx' = step'.idx_before
              /\ \A s \in step'.written_before :
                    \/ last_signals_7_30'[s] = check_signal_ema7_30(results'[s].df)
                    \/ last_signals_9_20_rsi'[s] = check_signal_ema9_20_rsi(results'[s].df)
              /\ step'.sig1 \notin { None, NotRun, step'.old1 } =>
                    /\ last_signals_7_30'[step'.symbol] = step'.sig1
                    /\ Dispatched(step', step'.symbol, "EMA7/30", step'.sig1)
        /\ RaisedStep(step) =>
              /\ step'.kind = "sleep"
              /\ last_signals_7_30' = last_signals_7_30
              /\ last_signals_9_20_rsi' = last_signals_9_20_rsi
        /\ (step'.kind = "symbol" /\ ~step'.skipped) =>
              /\ step'.sig1 = step'.old1 => ~Dispatched(step', step'.symbol, "EMA7/30", step'.sig1)
              /\ step'.sig2 = step'.old2 =>
                    ~Dispatched(step', step'.symbol, "EMA9/20+RSI", step'.sig2) ]_vars

\* The momentum evaluator raises for the second symbol after the first symbol's
\* crossover entry and the second symbol's own crossover entry were written in
\* this sweep: both entries are kept and the loop is back at its top.
C29_Witness ==
    /\ RaisedStep(step)
    /\ step.symbol = "ETH/USDT"
    /\ step.fault = "second"
    /\ step.written_before = { "BTC/USDT" }
    /\ last_signals_7_30["BTC/USDT"] = "LONG"
    /\ step.old1 = "SHORT"
    /\ last_signals_7_30["ETH/USDT"] = "LONG"
    /\ pc = "sleeping"

\* A token and a chat id are configured, so the notifier has a recipient.
RecipientConfigured ==
    ~FalsyStr(env.TELEGRAM_TOKEN) /\ ~FalsyStr(env.TELEGRAM_CHAT_ID)

\* C24, as claimed: with a recipient configured, every fatal condition (a
\* configuration that cannot be loaded or fails its check, a failed symbol
\* validation, a failed test request, the stop at the failure threshold) has
\* handed a message to the notifier when the run ends, and an iteration that
\* skips a symbol whose fetch failed hands over none.
C24_FatalConditionsNotify ==
    /\ RecipientConfigured =>
          /\ pc = "EXIT_IMPORT" => step.sent # << >>
          /\ (step.kind = "check_tokens" /\ ~step.ok) => step.sent # << >>
          /\ pc = "EXIT_VALIDATE" =>
                \E i \in DOMAIN step.sent : step.sent[i].kind = "fatal_validate"
          /\ pc = "EXIT_PROBE" =>
                \E i \in DOMAIN step.sent : step.sent[i].kind = "fatal_probe"
          /\ pc = "STOPPED" =>
                \E i \in DOMAIN step.sent : step.sent[i].kind = "final"
    /\ (step.kind = "symbol" /\ step.skipped) => step.sent = << >>

\* The texts that are commands: they are matched by the command handlers.
CommandTexts == { "/help", "/set_tp", "/set_sl" }

\* C30, as claimed, a message being a text that is no command: after the
\* configured chat's /set_tp its session waits for the take-profit value; the
\* next message of the chat is taken as that value by process_tp; a value that
\* is no strictly positive number leaves the session waiting and the percent
\* unchanged; an accepted value sets the percent and ends the session; and a
\* message of a chat with no session changes neither percent nor any session.
C30_DialogSession ==
    [][ tg' # tg =>
          LET chat == tg'.chat
              text == tg'.text
          IN  /\ (tg'.handler = "set_take_profit" /\ ~Stranger(chat)) =>
                    state_storage'[chat] = "waiting_for_tp"
              /\ (state_storage[chat] = "waiting_for_tp" /\ text \notin CommandTexts) =>
                    /\ tg'.handler = "process_tp"
                    /\ IF PositiveNumber(text)
                       THEN /\ TP_PERCENT' = ParseFloat(text).val
                            /\ state_storage'[chat] = None
                       ELSE /\ TP_PERCENT' = TP_PERCENT
                            /\ state_storage'[chat] = "waiting_for_tp"
              /\ (state_storage[chat] = None /\ text \notin CommandTexts) =>
                    /\ TP_PERCENT' = TP_PERCENT
                    /\ SL_PERCENT' = SL_PERCENT
                    /\ state_storage' = state_storage ]_vars

\* C25: for every period p > 0 and every non-empty close series, calc_ema
\* returns a series of the same length, defined at every row, whose first value
\* is the first close and whose value at each later row i is
\* alpha * close[i] + (1 - alpha) * ema[i-1] with alpha = 2 / (p + 1).
C25_EmaRecurrence ==
    (Returned_by("calc_ema") /\ call.arg.period > 0) =>
        LET close == call.arg.close
            p == call.arg.period
            out == call.out[1]
        IN  /\ out.ok
            /\ Len(out.val) = Len(close)
            /\ \A i \in 1..Len(close) : out.val[i].den > 0
            /\ out.val[1].num = close[1] * out.val[1].den
            /\ \A i \in 2..Len(close) :
                  LET y == out.val[i]
                      before == out.val[i - 1]
                  IN  \* y = (2 * close[i] + (p - 1) * before) / (p + 1)
                      y.num * (p + 1) * before.den =
                          y.den * (2 * close[i] * before.den + (p - 1) * before.num)

\* Period 2 (alpha = 2/3) on the closes 8, 10, 12: 8, 28/3 and 100/9.
C25_Witness ==
    /\ Returned_by("calc_ema")
    /\ call.arg = [close |-> << 8, 10, 12 >>, period |-> 2]
    /\ call.out[1] = Ok(<< [num |-> 8, den |-> 1], [num |-> 28, den |-> 3],
                          [num |-> 100, den |-> 9] >>)

\* The window of period differences that ends at row i holds no loss.
ZeroLossWindow(close, period, i) ==
    \A j \in (i - period + 1)..i : close[j] >= close[j - 1]

\* C26: calc_rsi returns one value per row; the value is undefined at exactly
\* the first p rows and defined at every later row; every defined value is
\* 100 * num / den with num < den, so strictly below 100; and a window with no
\* loss divides by 1e-10 in place of zero: its value is defined, with
\* den = num + 1e-10 in the units of the means.
C26_RsiDefinedAfterPeriod ==
    Returned_by("calc_rsi") =>
        LET close == call.arg.close
            p == call.arg.period
            out == call.out[1]
        IN  /\ DOMAIN out = 1..Len(close)
            /\ \A i \in 1..Len(close) :
                  /\ out[i].na <=> i <= p
                  /\ ~out[i].na =>
                        /\ BigLess(out[i].num, out[i].den)
                        /\ ZeroLossWindow(close, p, i) =>
                              out[i].den = BigAdd(out[i].num, Big(0, p))

\* Period 2 on the closes 10, 12, 12, 12: undefined on the first two rows, then
\* a window with a gain and no loss, then a flat window.
C26_Witness ==
    /\ Returned_by("calc_rsi")
    /\ call.arg = [close |-> << 10, 12, 12, 12 >>, period |-> 2]
    /\ call.out[1][1].na /\ call.out[1][2].na
    /\ call.out[1][3] = [na |-> FALSE, num |-> Big(2, 0), den |-> Big(2, 2)]
    /\ call.out[1][4] = [na |-> FALSE, num |-> Big(0, 0), den |-> Big(0, 2)]

\* The last step ended a sweep: its last iteration raised, or the statements
\* after the for loop were run.
SweepEnded(observed) ==
    \/ observed.kind = "symbol" /\ observed.raised
    \/ observed.kind \in { "endsweep", "endsweep_sleep" }

\* C22, as claimed: when the tasks of a sweep are created after a sweep has
\* ended, the loop has slept in between, either as the last statement of the
\* sweep that ended or as the first statement of the one that starts, also when
\* the sweep ended with an exception below the threshold.
C22_SleepBetweenSweeps ==
    [][ (SweepEnded(step) /\ pc = "sleeping" /\ pc' = "fetching") =>
            \/ step'.kind = "sleep"
            \/ step.kind = "endsweep_sleep" ]_vars

\* C23: each run of main starts with both stores empty, and an entry stays empty
\* until the run computes a first real signal for its pair, whatever a run or a
\* process before it had stored; so the first real signal a run computes for a
\* pair is always notified, also when the process that ended before had
\* notified the same signal.
C23_StoreStartsEmpty ==
    /\ (step.kind = "check_tokens" /\ step.ok) =>
          /\ last_signals_7_30 = EmptyStore
          /\ last_signals_9_20_rsi = EmptyStore
    /\ \A s \in SymbolSet :
          /\ prevSig["7_30"][s] = None => last_signals_7_30[s] = None
          /\ prevSig["9_20_rsi"][s] = None => last_signals_9_20_rsi[s] = None
    /\ Evaluated =>
          /\ (step.prev1 = None /\ step.sig1 \notin { None, NotRun }) =>
                /\ step.old1 = None
                /\ Dispatched(step, step.symbol, "EMA7/30", step.sig1)
          /\ (step.prev2 = None /\ step.sig2 \notin { None, NotRun }) =>
                /\ step.old2 = None
                /\ Dispatched(step, step.symbol, "EMA9/20+RSI", step.sig2)

\* After a restart, the first signal of the pair is the LONG that the process
\* before had notified, and it is notified again.
C23_Witness ==
    /\ Evaluated
    /\ earlier.restarts = 1
    /\ earlier.last_signals_7_30[step.symbol] = "LONG"
    /\ step.prev1 = None
    /\ step.sig1 = "LONG"
    /\ Dispatched(step, step.symbol, "EMA7/30", "LONG")

====
